---------------------------- MODULE Spec2Model ----------------------------
(***************************************************************************)
(* Model of the invoice agent's WebSocket chat endpoint (src/main.py):      *)
(* the per-connection receive loop of websocket_endpoint, the message       *)
(* protocol (ChatMessage / ChatResponse), the agent loop                    *)
(* (run_quotation_agent) and the connection manager.                        *)
(*                                                                         *)
(* Each connection handler is a coroutine on one asyncio event loop.  Its   *)
(* position is pc[c]; it gives up the event loop only at an await           *)
(* (receive_text, send_text).  The calls to the LLM and to the payments     *)
(* provider are plain synchronous calls, so while a coroutine is inside     *)
(* one of them no other coroutine takes a step.                             *)
(*                                                                         *)
(* Texts are sequences of one-character strings, so that lower() and        *)
(* strip() are computed; a message built by an f-string is the sequence of  *)
(* its fragments.  The timestamp field of the two schemas is left out: no   *)
(* branch of the code reads it.                                             *)
(***************************************************************************)
EXTENDS Integers, Sequences, FiniteSets, Bags, TLC

\* ------------------------------------------------------------------ bounds
\* number of WebSocket connections that are ever opened
MaxConns == 2
\* number of frames the clients send in total, over all connections
MaxFrames == 2
\* length of a connection's receive buffer
MaxInbox == 2

Conns == 1..MaxConns

\* ------------------------------------------------------------------- texts
\* str.lower() on one character
LowerChar(ch) ==
  CASE ch = "C" -> "c"
    [] ch = "L" -> "l"
    [] ch = "E" -> "e"
    [] ch = "A" -> "a"
    [] ch = "R" -> "r"
    [] ch = "H" -> "h"
    [] ch = "I" -> "i"
    [] ch = "U" -> "u"
    [] ch = "S" -> "s"
    [] ch = "D" -> "d"
    [] OTHER -> ch

\* str.lower()
Lower(s) == [i \in 1..Len(s) |-> LowerChar(s[i])]

Whitespace == {" ", "\n", "\t"}

RECURSIVE LStrip(_)
LStrip(s) ==
  IF s # <<>> /\ Head(s) \in Whitespace THEN LStrip(Tail(s)) ELSE s

RECURSIVE RStrip(_)
RStrip(s) ==
  IF s # <<>> /\ s[Len(s)] \in Whitespace
  THEN RStrip(SubSeq(s, 1, Len(s) - 1))
  ELSE s

\* str.strip()
Strip(s) == LStrip(RStrip(s))

SlashClear == <<"/", "c", "l", "e", "a", "r">>

\* message texts a client may put in a frame
TextHi == <<"h", "i">>
TextPaddedClear == <<" ", "/", "C", "l", "e", "a", "R", "\n">>
TextClearAndMore == <<"/", "c", "l", "e", "a", "r", " ", "h", "i">>

\* ------------------------------------------------------------- session ids
\* uuid.uuid4(): a random id that no other call returns, named here by the
\* connection whose handler asked for it
Uuid4(c) == <<"uuid4", c>>

\* a session id a client puts in its frames
ClientId(n) == <<"client", n>>

\* the value of a session id that has not been set
NoSession == <<"unset", 0>>

\* ------------------------------------------------------------------ frames
\* A JSON value: a string, a number, null, a list or an object.
JStr(v) == [t |-> "str", v |-> v]
JNum == [t |-> "num", v |-> <<>>]
JNull == [t |-> "null", v |-> <<>>]
JList == [t |-> "list", v |-> <<>>]
JObj(fields) == [t |-> "object", v |-> fields]

\* A frame is the text payload that receive_text returns: either the text of
\* a JSON value (isJson) or any other text.
JsonFrame(value) == [isJson |-> TRUE, raw |-> <<>>, value |-> value]
TextFrame(raw) == [isJson |-> FALSE, raw |-> raw, value |-> JNull]

\* a JSON object with the given keys
Obj2(k1, v1, k2, v2) == JObj((k1 :> v1) @@ (k2 :> v2))
Obj3(k1, v1, k2, v2, k3, v3) == JObj((k1 :> v1) @@ (k2 :> v2) @@ (k3 :> v3))

\* the frames the clients choose from
ChatFrame(sid, text) ==
  JsonFrame(Obj2("session_id", JStr(sid), "message", JStr(text)))
TypedFrame(sid, text, mtype) ==
  JsonFrame(Obj3("session_id", JStr(sid), "message", JStr(text),
                 "message_type", JStr(mtype)))

Frames ==
  { TextFrame(TextHi),
    TextFrame(SlashClear),
    ChatFrame(ClientId(1), TextHi),
    ChatFrame(ClientId(2), SlashClear),
    ChatFrame(ClientId(1), TextPaddedClear),
    ChatFrame(ClientId(1), TextClearAndMore),
    TypedFrame(ClientId(2), TextHi, "clear"),
    TypedFrame(ClientId(1), TextHi, "chat"),
    TypedFrame(ClientId(1), TextHi, "CLEAR"),
    JsonFrame(JList),
    JsonFrame(JStr(SlashClear)),
    JsonFrame(Obj2("message", JStr(TextHi), "message_type", JStr("clear"))),
    JsonFrame(Obj2("session_id", JStr(ClientId(1)), "message_type", JStr("clear"))),
    JsonFrame(Obj2("session_id", JStr(ClientId(1)), "message", JNum)),
    JsonFrame(Obj3("session_id", JNull, "message", JStr(SlashClear),
                   "message_type", JStr("chat"))),
    JsonFrame(Obj3("session_id", JStr(ClientId(1)), "message", JStr(TextHi),
                   "message_type", JNum)) }


\* a frame of each class: plain text, a chat message, a clear command, and
\* JSON that is no ChatMessage
CoreFrames ==
  { TextFrame(TextHi),
    ChatFrame(ClientId(1), TextHi),
    TypedFrame(ClientId(2), TextHi, "clear"),
    JsonFrame(JList) }

\* ------------------------------------------------------------- exceptions
\* An exception object: its class and the text str(e) gives.
Exc(cls, msg) == [cls |-> cls, msg |-> msg]

\* str(e)
StrOf(e) == e.msg

\* optional values: None is the empty sequence, a value v is <<v>>
Nothing == <<>>
Some(v) == <<v>>

\* -------------------------------------------------- message protocol layer
\* json.loads(data)
JsonLoads(frame) ==
  IF frame.isJson
  THEN [ok |-> TRUE, value |-> frame.value, exc |-> Exc("", "")]
  ELSE [ok |-> FALSE, value |-> JNull,
        exc |-> Exc("JSONDecodeError", "Expecting value")]

\* a required str field of the schema
RequiredStr(fields, k) == k \in DOMAIN fields /\ fields[k].t = "str"

\* an optional str field of the schema
OptionalStr(fields, k) == k \in DOMAIN fields => fields[k].t = "str"

\* ChatMessage(**message_data): the fields the endpoint reads, or the
\* exception the construction raises
ChatMessage(value) ==
  IF value.t # "object"
  THEN [ok |-> FALSE, session_id |-> NoSession, message |-> <<>>, message_type |-> "",
        exc |-> Exc("TypeError", "argument after ** must be a mapping")]
  ELSE IF ~ ( /\ RequiredStr(value.v, "session_id")
              /\ RequiredStr(value.v, "message")
              /\ OptionalStr(value.v, "user_id")
              /\ OptionalStr(value.v, "message_type") )
  THEN [ok |-> FALSE, session_id |-> NoSession, message |-> <<>>, message_type |-> "",
        exc |-> Exc("ValidationError", "validation error for ChatMessage")]
  ELSE [ok |-> TRUE,
        session_id |-> value.v["session_id"].v,
        message |-> value.v["message"].v,
        message_type |-> IF "message_type" \in DOMAIN value.v
                         THEN value.v["message_type"].v
                         ELSE "chat",
        exc |-> Exc("", "")]

\* the test of the clear command with strip() forgotten
IsClearCommandNoStrip(chat_message) ==
  \/ chat_message.message_type = "clear"
  \/ Lower(chat_message.message) = SlashClear

\* the test of the clear command
IsClearCommand(chat_message) ==
  \/ chat_message.message_type = "clear"
  \/ Strip(Lower(chat_message.message)) = SlashClear

\* ChatResponse(...): sender and message_type keep their defaults at every
\* construction in the endpoint
ChatResponse(sid, message, success, error) ==
  [session_id |-> sid, message |-> message, sender |-> "agent",
   message_type |-> "response", success |-> success, error |-> error]

ClearedMessage == <<"Chat history has been cleared.">>
GenericErrorMessage == <<"Sorry, I encountered an error processing your message.">>

\* the response of the clear branch
ClearResponse(chat_message) ==
  ChatResponse(chat_message.session_id, ClearedMessage, TRUE, Nothing)

\* the response of the chat branch
AgentResponse(chat_message, agent_response) ==
  ChatResponse(chat_message.session_id, agent_response, TRUE, Nothing)

\* the response of the plain-text branch; sid is the id made at connect
FallbackResponse(sid, agent_response) ==
  ChatResponse(sid, agent_response, TRUE, Nothing)

\* the error response with its error field left at the default
ErrorResponseUnflagged(sid, e) ==
  ChatResponse(sid, GenericErrorMessage, FALSE, Nothing)

\* the response of the except-Exception branch
ErrorResponse(sid, e) ==
  ChatResponse(sid, GenericErrorMessage, FALSE, Some(StrOf(e)))

\* -------------------------------------------------------------- agent loop
\* number of parts in a candidate of the model's reply
MaxParts == 2

\* the names run_quotation_agent dispatches on
ToolNames == {"create_customer", "create_invoice", "list_invoices"}

\* a name the model may return that is none of them
UnknownTool == "delete_invoice"

\* One part of a candidate's content: free text, or a function call.  argsOk
\* says whether the call's arguments bind to the handler's parameters (a
\* missing required or an unexpected keyword makes handler(**args) raise
\* TypeError before the handler's body runs).
TextPart(text) == [kind |-> "text", text |-> text, name |-> "", argsOk |-> TRUE]
FunctionCall(name, argsOk) ==
  [kind |-> "function_call", text |-> "", name |-> name, argsOk |-> argsOk]

Parts ==
  { TextPart("Hello"),
    FunctionCall("create_customer", TRUE),
    FunctionCall("create_invoice", FALSE),
    FunctionCall("list_invoices", TRUE),
    FunctionCall(UnknownTool, TRUE) }

PartSeqs == UNION {[1..n -> Parts] : n \in 0..MaxParts}

\* The reply of model.generate_content: an exception, or a response with its
\* candidates (each the sequence of its content's parts; a candidate without
\* content has none).  textRaises is what the response's text accessor does
\* on a reply that is not one candidate with one text part, where it depends
\* on the release of the provider's library.
Raised(e) == [raised |-> TRUE, exc |-> e, candidates |-> <<>>, textRaises |-> TRUE]
Replied(cands, textRaises) ==
  [raised |-> FALSE, exc |-> Exc("", ""), candidates |-> cands,
   textRaises |-> textRaises]

ModelErrors == {Exc("ResourceExhausted", "429 quota exceeded")}

LaterCandidates == {<<FunctionCall("create_invoice", TRUE)>>}

Replies ==
  {Raised(e) : e \in ModelErrors}
    \cup {Replied(<<>>, TRUE)}
    \cup {Replied(<<ps>>, b) : ps \in PartSeqs, b \in BOOLEAN}
    \cup {Replied(<<ps, later>>, b) :
            ps \in {qs \in PartSeqs : Len(qs) <= 1},
            later \in LaterCandidates, b \in BOOLEAN}

\* a reply of each class
CoreReplies ==
  { Raised(Exc("ResourceExhausted", "429 quota exceeded")),
    Replied(<<<<TextPart("Hello")>>>>, FALSE),
    Replied(<<<<FunctionCall("create_customer", TRUE)>>>>, TRUE) }

\* the texts of the text parts, in order
RECURSIVE TextsOf(_)
TextsOf(parts) ==
  IF parts = <<>> THEN <<>>
  ELSE IF Head(parts).kind = "text"
       THEN <<Head(parts).text>> \o TextsOf(Tail(parts))
       ELSE TextsOf(Tail(parts))

\* response.text: the text of a one-candidate, one-text-part reply; ValueError
\* when there is no text to give; otherwise as the library release decides
ResponseText(reply) ==
  LET cands == reply.candidates
      parts == IF cands = <<>> THEN <<>> ELSE cands[1]
      simple == Len(cands) = 1 /\ Len(parts) = 1 /\ parts[1].kind = "text"
      raises == ~simple /\ (TextsOf(parts) = <<>> \/ reply.textRaises)
  IN IF raises
     THEN [ok |-> FALSE, text |-> <<>>,
           exc |-> Exc("ValueError", "Could not convert part to text")]
     ELSE [ok |-> TRUE, text |-> TextsOf(parts), exc |-> Exc("", "")]

\* the loop over content.parts without its return: the last call wins
RECURSIVE LastDispatch(_, _)
LastDispatch(parts, i) ==
  IF i > Len(parts) THEN 0
  ELSE IF LastDispatch(parts, i + 1) > 0 THEN LastDispatch(parts, i + 1)
  ELSE IF parts[i].kind = "function_call" /\ parts[i].name \in ToolNames
       THEN i
       ELSE 0

\* the loop over content.parts: the index of the first part that is a
\* function call with one of the three names, 0 if there is none
RECURSIVE FirstDispatch(_, _)
FirstDispatch(parts, i) ==
  IF i > Len(parts) THEN 0
  ELSE IF parts[i].kind = "function_call" /\ parts[i].name \in ToolNames
       THEN i
       ELSE FirstDispatch(parts, i + 1)

\* the text the except branch of run_quotation_agent returns
AgentErrorText(e) ==
  <<"I'm sorry, I encountered an error while processing your request: ", StrOf(e)>>

\* the icon run_quotation_agent puts before a handler's result
Icon(tool) ==
  CASE tool = "create_customer" -> "[customer] "
    [] tool = "create_invoice" -> "[invoice] "
    [] OTHER -> "[list] "

\* run_quotation_agent up to the call of a handler: either the text it
\* returns (kind "return") or the handler it calls (kind "call")
RunAgent(reply) ==
  LET parts == IF reply.candidates = <<>> THEN <<>> ELSE reply.candidates[1]
      i == FirstDispatch(parts, 1)
      txt == ResponseText(reply)
  IN IF reply.raised
     THEN [kind |-> "return", tool |-> "", text |-> AgentErrorText(reply.exc)]
     ELSE IF i > 0
     THEN IF parts[i].argsOk
          THEN [kind |-> "call", tool |-> parts[i].name, text |-> <<>>]
          ELSE [kind |-> "return", tool |-> "",
                text |-> AgentErrorText(Exc("TypeError", "unexpected keyword argument"))]
     ELSE IF txt.ok
     THEN [kind |-> "return", tool |-> "", text |-> txt.text]
     ELSE [kind |-> "return", tool |-> "", text |-> AgentErrorText(txt.exc)]

\* ---------------------------------------------------------- action handlers
\* what str(e) gives for a failure of a call to the payments provider
PaymentErrors == {Exc("APIConnectionError", "payments provider unreachable")}

ErrorPrefix(tool) ==
  CASE tool = "create_customer" -> "Error creating customer: "
    [] tool = "create_invoice" -> "Error creating invoice: "
    [] OTHER -> "Error listing invoices: "

SuccessText(tool) ==
  CASE tool = "create_customer" -> "Customer created successfully"
    [] tool = "create_invoice" -> "Invoice created successfully"
    [] OTHER -> "Found invoices."

\* the string a handler returns: outcome is Nothing when its calls to the
\* provider succeed, Some(e) when one raises e
HandlerResult(tool, outcome) ==
  IF outcome = Nothing
  THEN <<SuccessText(tool)>>
  ELSE <<ErrorPrefix(tool), StrOf(outcome[1])>>

\* the string run_quotation_agent returns after a handler
DecoratedResult(tool, outcome) == <<Icon(tool)>> \o HandlerResult(tool, outcome)

\* ------------------------------------------- action handlers, step by step
\* number of handler calls the agent loop makes in one run of the model
MaxDispatches == 2

\* A value of function_call.args: a string, a number (given in tenths, so
\* that 12.5 is Number(125)), or None.
Number(tenths) == [t |-> "num", v |-> <<>>, tenths |-> tenths]

\* customer ids a caller may name: one that exists at the provider when the
\* process starts, and one that does not
ExistingCustomer == <<"cus", "A">>
UnknownCustomer == <<"cus", "X">>

\* the ids the provider gives to the n-th customer and the n-th invoice it
\* creates: the provider makes them up, no caller has named them before
NewCustomerId(n) == <<"cus_new", n>>
NewInvoiceId(n) == <<"in", n>>

\* the parameters of each handler, and those without a default
Parameters(tool) ==
  CASE tool = "create_customer" -> {"email", "name", "description"}
    [] tool = "create_invoice" -> {"customer_id", "amount", "currency", "description"}
    [] OTHER -> {"customer_id"}

Required(tool) ==
  CASE tool = "create_customer" -> {"email"}
    [] tool = "create_invoice" -> {"customer_id", "amount"}
    [] OTHER -> {}

\* handler(**args): the TypeError of a call whose keywords do not bind
Bind(tool, args) ==
  IF Required(tool) \subseteq DOMAIN args /\ DOMAIN args \subseteq Parameters(tool)
  THEN Nothing
  ELSE IF ~(DOMAIN args \subseteq Parameters(tool))
  THEN Some(Exc("TypeError", "got an unexpected keyword argument"))
  ELSE Some(Exc("TypeError", "missing 1 required positional argument"))

\* the value a parameter is bound to
Arg(args, k, default) == IF k \in DOMAIN args THEN args[k] ELSE default

\* bool(value): None, "" and 0 are false
Truthy(value) ==
  CASE value.t = "null" -> FALSE
    [] value.t = "str" -> value.v # <<>>
    [] value.t = "num" -> value.tenths # 0
    [] OTHER -> TRUE

\* the value of a decimal digit, -1 for any other character
DigitVal(ch) ==
  CASE ch = "0" -> 0 [] ch = "1" -> 1 [] ch = "2" -> 2 [] ch = "3" -> 3
    [] ch = "4" -> 4 [] ch = "5" -> 5 [] ch = "6" -> 6 [] ch = "7" -> 7
    [] ch = "8" -> 8 [] ch = "9" -> 9 [] OTHER -> -1

\* the number a non-empty string of digits writes, -1 if it is not one
RECURSIVE Digits(_, _)
Digits(s, acc) ==
  IF s = <<>> THEN acc
  ELSE IF DigitVal(Head(s)) < 0 THEN -1
  ELSE Digits(Tail(s), 10 * acc + DigitVal(Head(s)))

\* the index of the first ch in s, 0 if there is none
RECURSIVE Find(_, _, _)
Find(s, ch, i) ==
  IF i > Len(s) THEN 0 ELSE IF s[i] = ch THEN i ELSE Find(s, ch, i + 1)

\* float(text), in tenths, for the decimal forms "12" and "12.5" with blanks
\* around them; -1 where float raises ValueError
ParseFloat(text) ==
  LET s == Strip(text)
      dot == Find(s, ".", 1)
      whole == IF dot = 0 THEN s ELSE SubSeq(s, 1, dot - 1)
      frac == IF dot = 0 THEN <<"0">> ELSE SubSeq(s, dot + 1, Len(s))
  IN IF whole = <<>> \/ Len(frac) # 1 \/ Digits(whole, 0) < 0 \/ Digits(frac, 0) < 0
     THEN -1
     ELSE 10 * Digits(whole, 0) + Digits(frac, 0)

\* float(value)
FloatOf(value) ==
  CASE value.t = "num" -> [ok |-> TRUE, tenths |-> value.tenths, exc |-> Exc("", "")]
    [] value.t = "str" ->
         IF ParseFloat(value.v) < 0
         THEN [ok |-> FALSE, tenths |-> 0,
               exc |-> Exc("ValueError", "could not convert string to float")]
         ELSE [ok |-> TRUE, tenths |-> ParseFloat(value.v), exc |-> Exc("", "")]
    [] OTHER -> [ok |-> FALSE, tenths |-> 0,
                 exc |-> Exc("TypeError", "float() argument must be a string or a real number")]

\* int() of a float, rounding to the nearest integer instead
IntOfRounded(tenths) == (tenths + 5) \div 10

\* int() of a float: the fraction is cut off, towards zero
IntOf(tenths) == IF tenths >= 0 THEN tenths \div 10 ELSE -((-tenths) \div 10)

\* f"{minor/100:.2f}": sign, whole part and the two decimals
Money(minor) ==
  LET abs == IF minor < 0 THEN -minor ELSE minor
  IN [negative |-> minor < 0, whole |-> abs \div 100, cents |-> abs % 100]

\* str.upper() on one character
UpperChar(ch) ==
  CASE ch = "i" -> "I"
    [] ch = "n" -> "N"
    [] ch = "r" -> "R"
    [] ch = "u" -> "U"
    [] ch = "s" -> "S"
    [] ch = "d" -> "D"
    [] OTHER -> ch

\* str.upper()
Upper(s) == [i \in 1..Len(s) |-> UpperChar(s[i])]

\* str.lower() / str.upper() of an argument: AttributeError if it is no str
LowerOf(value) ==
  IF value.t = "str"
  THEN [ok |-> TRUE, text |-> Lower(value.v), exc |-> Exc("", "")]
  ELSE [ok |-> FALSE, text |-> <<>>,
        exc |-> Exc("AttributeError", "object has no attribute 'lower'")]

\* email.split("@")[0]
LocalPart(email) ==
  IF Find(email, "@", 1) = 0 THEN email ELSE SubSeq(email, 1, Find(email, "@", 1) - 1)

\* f"{customer_id}@demo.com"
DemoEmail(customer_id) == <<customer_id, "@demo.com">>

\* the texts the handlers return
CustomerCreated(id, email) ==
  <<"Customer ", id, " created successfully for ", email>>

InvoiceCreated(id, customer_id, amount, currency, total) ==
  <<"Invoice ", id, " created successfully for customer ", customer_id,
    " with amount ", Money(amount), " ", Upper(currency),
    ". Total: ", Money(total), " ", Upper(currency)>>

InvoicesFound(n) == <<"Found ", n, " invoices.">>

\* f"Error ...: {str(e)}"
ErrorText(tool, e) == <<ErrorPrefix(tool), StrOf(e)>>

\* the activation of a handler that has not been called
NoHandler ==
  [no |-> 0, tool |-> "", args |-> <<>>, at |-> "idle",
   customer_id |-> <<>>, amount |-> 0, currency |-> <<>>, invoice |-> <<>>,
   total |-> 0, calls |-> <<>>, returned |-> Nothing, raised |-> Nothing]

\* the provider's account when the process starts: one customer, no invoice
InitStripe ==
  [customers |-> (ExistingCustomer :>
                    [email |-> <<"a@x.io">>, name |-> <<"A">>, demo |-> FALSE]),
   invoices |-> <<>>]

\* the handler returns the text: its activation is over
Return(h, text) == [h EXCEPT !.at = "done", !.returned = Some(text)]

\* except Exception as e: return f"Error ...: {str(e)}"
Fail(h, e) == Return(h, ErrorText(h.tool, e))

\* the handler has made a call to the provider, which succeeded or not
Called(h, op, ok) == [h EXCEPT !.calls = Append(@, [op |-> op, ok |-> ok])]

\* create_invoice with the invoice finalized before its line item is attached
AfterFinalizeFirst(step) ==
  CASE step = "retrieve" -> "invoice"
    [] step = "demo" -> "invoice"
    [] step = "invoice" -> "finalize"
    [] step = "finalize" -> "item"
    [] OTHER -> "return"

\* the order of create_invoice's steps: what follows a step that succeeded
After(step) ==
  CASE step = "retrieve" -> "invoice"
    [] step = "demo" -> "invoice"
    [] step = "invoice" -> "item"
    [] step = "item" -> "finalize"
    [] OTHER -> "return"

\* create_invoice from the end of one call to the provider to the next call
\* or to its return: the arguments of the next call are evaluated
Proceed(h, step) ==
  IF step = "return"
  THEN Return(h, InvoiceCreated(h.invoice, h.customer_id, h.amount,
                                Arg(h.args, "currency", JStr(<<"i", "n", "r">>)).v,
                                h.total))
  ELSE IF step \in {"invoice", "item"}
          /\ ~LowerOf(Arg(h.args, "currency", JStr(<<"i", "n", "r">>))).ok
  THEN Fail(h, LowerOf(Arg(h.args, "currency", JStr(<<"i", "n", "r">>))).exc)
  ELSE [h EXCEPT !.at = step]

\* handler(**args) up to its first call to the provider, or to its return
\* or raise if it makes none; no is the number of this call
Enter(tool, args, no) ==
  LET h == [NoHandler EXCEPT !.no = no, !.tool = tool, !.args = args]
  IN IF Bind(tool, args) # Nothing
     THEN [h EXCEPT !.at = "done", !.raised = Bind(tool, args)]
     ELSE IF tool = "create_customer"
     THEN IF ~Truthy(Arg(args, "name", JStr(<<>>))) /\ args["email"].t # "str"
          THEN Fail(h, Exc("AttributeError", "object has no attribute 'split'"))
          ELSE [h EXCEPT !.at = "customer"]
     ELSE IF tool = "create_invoice"
     THEN IF ~FloatOf(args["amount"]).ok
          THEN Fail(h, FloatOf(args["amount"]).exc)
          ELSE [h EXCEPT !.at = "retrieve",
                         !.customer_id = args["customer_id"].v,
                         !.amount = IntOf(FloatOf(args["amount"]).tenths)]
     ELSE [h EXCEPT !.at = "list"]

\* the except clause around the lookup catching every exception
CaughtAsMissingAny(e) == TRUE

\* except stripe.error.InvalidRequestError
CaughtAsMissing(e) == e.cls = "InvalidRequestError"

\* the sum of the amounts of an invoice's lines
RECURSIVE SumAmounts(_)
SumAmounts(lines) ==
  IF lines = <<>> THEN 0 ELSE Head(lines).amount + SumAmounts(Tail(lines))

\* the provider's answer to a request: the exception the call raises if the
\* request is lost (outcome), the provider's refusal if its precondition
\* fails, nothing if it is carried out
Answer(outcome, accepted, refusal) ==
  IF outcome # Nothing THEN outcome
  ELSE IF ~accepted THEN Some(Exc("InvalidRequestError", refusal))
  ELSE Nothing

\* ------------------------------------------------------------ HTTP surface
\* the secret an operator may configure, and another text
Secret == <<"s3cret">>
WrongKey == <<"guess">>

\* no request has been made yet
NoRequest == [endpoint |-> "", api_key |-> Nothing, status |-> 0, cleared |-> FALSE]

\* ------------------------------------------------------------------- state
VARIABLES
  active_connections,   \* manager.active_connections: the list as the bag of
                        \* its elements (its order is read by broadcast alone)
  conversation_history, \* the process-global list
  session_id,           \* the handler's local session_id, per connection
  pc,                   \* where each connection's handler stands
  turn,                 \* the handler's locals for the frame it is processing,
                        \* and what has been done for that frame: the text given
                        \* to the agent, the model's reply, the handlers called,
                        \* the response sent
  inbox,                \* the frames that have arrived and receive_text has not
                        \* returned yet, each with its number in arrival order
  peer,                 \* "open", or "gone" once the client has closed its end
  wire,                 \* per connection, which frame of which connection each
                        \* response written to it answers, oldest first
  nframes,              \* frames sent by the clients so far
  manager_calls,        \* the calls made on a ConnectionManager by a caller
                        \* other than websocket_endpoint, oldest first
  stripe,               \* the payments provider's account: its customers and
                        \* its invoices
  handler,              \* the activation of the action handler that the agent
                        \* loop has called: its locals, where it stands, the
                        \* calls it has made to the provider, what it returned
  API_KEY,              \* os.getenv("API_KEY"): Nothing if it is not set
  http                  \* the last HTTP request and the response to it

\* the state that websocket_endpoint and its clients leave alone
others == <<manager_calls, stripe, handler, API_KEY, http>>

vars == <<active_connections, conversation_history, session_id, pc, turn,
          inbox, peer, wire, nframes, others>>

\* the locals of a handler that has not received a frame yet
NoTurn ==
  [frameNo |-> 0, frame |-> JsonFrame(JNull), site |-> "", prompt |-> <<>>,
   tool |-> "",
   response |-> ChatResponse(NoSession, <<>>, TRUE, Nothing), delivered |-> FALSE,
   agentRan |-> FALSE, modelRaised |-> FALSE, unknownCall |-> FALSE,
   handlers |-> <<>>, reply |-> Nothing]

\* the module's globals after import, and no connection opened yet
InitChat ==
  /\ active_connections = EmptyBag
  /\ conversation_history = <<>>
  /\ session_id = [c \in Conns |-> NoSession]
  /\ pc = [c \in Conns |-> "init"]
  /\ turn = [c \in Conns |-> NoTurn]
  /\ inbox = [c \in Conns |-> <<>>]
  /\ peer = [c \in Conns |-> "open"]
  /\ wire = [c \in Conns |-> <<>>]
  /\ nframes = 0

\* the rest of the state when the process starts, for a configured key
InitOthers(key) ==
  /\ manager_calls = <<>>
  /\ stripe = InitStripe
  /\ handler = NoHandler
  /\ API_KEY = key
  /\ http = NoRequest

Init == InitChat /\ InitOthers(Some(Secret))

\* A coroutine runs only when no other one is inside a synchronous call to
\* the LLM or to the payments provider: those calls do not give up the loop.
LoopFree(c) == \A d \in Conns \ {c} : pc[d] \notin {"model", "tool"}

\* run_quotation_agent adding the message to the history
HistoryAppended(history, message) == Append(history, message)

\* What a run of run_quotation_agent on a message leaves in the global
\* conversation_history: the function declares the global and neither reads
\* nor writes it, and model.generate_content is given the message alone.
HistoryAfter(history, message) == history

\* ------------------------------------------------------- connection manager
\* ConnectionManager.connect, after websocket.accept(): list.append
ManagerConnect(list, websocket) == list (+) SetToBag({websocket})

\* ConnectionManager.disconnect: list.remove takes one occurrence out, and
\* raises ValueError when there is none
ManagerDisconnect(list, websocket) ==
  IF BagIn(websocket, list)
  THEN [list |-> list (-) SetToBag({websocket}), raised |-> Nothing]
  ELSE [list |-> list,
        raised |-> Some(Exc("ValueError", "list.remove(x): x not in list"))]

\* ConnectionManager.broadcast used in place of send_message
SendMessageBroadcast(w, message, websocket) ==
  [d \in DOMAIN w |->
     IF BagIn(d, active_connections)
     THEN Append(w[d], message)
     ELSE w[d]]

\* send_message with the text written twice
SendMessageTwice(w, message, websocket) ==
  [w EXCEPT ![websocket] = Append(Append(@, message), message)]

\* ConnectionManager.send_message: the text goes to the given connection
SendMessage(w, message, websocket) ==
  [w EXCEPT ![websocket] = Append(@, message)]

\* ------------------------------------------------------------- environment
\* the number of frames that have arrived on a connection
Arrived(c) == turn[c].frameNo + Len(inbox[c])

\* a client sends a frame on its open connection, whose receive buffer has
\* fewer than room frames waiting; the frame is the next to arrive
ClientSend(c, f, room) ==
  /\ pc[c] \in {"recv", "model", "tool", "send"}
  /\ peer[c] = "open"
  /\ nframes < MaxFrames
  /\ Len(inbox[c]) < room
  /\ inbox' = [inbox EXCEPT ![c] = Append(@, [seq |-> Arrived(c) + 1, frame |-> f])]
  /\ nframes' = nframes + 1
  /\ UNCHANGED <<active_connections, conversation_history, session_id, pc, turn, peer, wire>>
  /\ UNCHANGED others

\* a client closes its end of the connection
ClientClose(c) ==
  /\ pc[c] \in {"recv", "model", "tool", "send"}
  /\ peer[c] = "open"
  /\ peer' = [peer EXCEPT ![c] = "gone"]
  /\ UNCHANGED <<active_connections, conversation_history, session_id, pc, turn, inbox, wire, nframes>>
  /\ UNCHANGED others

\* ------------------------------------------------------ websocket_endpoint
\* manager.connect(websocket) and session_id = str(uuid.uuid4())
Connect(c) ==
  /\ pc[c] = "init"
  /\ LoopFree(c)
  /\ active_connections' = ManagerConnect(active_connections, c)
  /\ session_id' = [session_id EXCEPT ![c] = Uuid4(c)]
  /\ pc' = [pc EXCEPT ![c] = "recv"]
  /\ UNCHANGED <<conversation_history, turn, inbox, peer, wire, nframes>>
  /\ UNCHANGED others

\* the chat branch answering with the id made at connect
RespondServerId(c, text) == FallbackResponse(session_id[c], text)

\* the response of the branch the handler is in, for the agent's text
Respond(c, text) ==
  IF turn[c].site = "try"
  THEN AgentResponse(ChatMessage(turn[c].frame.value), text)
  ELSE FallbackResponse(session_id[c], text)

\* the handler has ended and its locals are gone: what is kept is which
\* frame it received last
Ended(t) == [NoTurn EXCEPT !.frameNo = t.frameNo, !.frame = t.frame]

\* data = await websocket.receive_text() returns a frame; the handler runs to
\* its next call that takes time: the model's, or the send of a response
Receive(c) ==
  /\ pc[c] = "recv"
  /\ LoopFree(c)
  /\ inbox[c] # <<>>
  /\ LET data == Head(inbox[c]).frame
         loaded == JsonLoads(data)
         chat_message == ChatMessage(loaded.value)
         t == [NoTurn EXCEPT !.frameNo = Head(inbox[c]).seq, !.frame = data]
     IN /\ inbox' = [inbox EXCEPT ![c] = Tail(@)]
        /\ IF ~loaded.ok
           THEN \* except json.JSONDecodeError: process_chat_message(data)
                /\ turn' = [turn EXCEPT ![c] =
                              [t EXCEPT !.site = "fallback", !.agentRan = TRUE,
                                        !.prompt = data.raw]]
                /\ pc' = [pc EXCEPT ![c] = "model"]
                /\ UNCHANGED conversation_history
           ELSE IF ~chat_message.ok
           THEN \* except Exception as e: the error response
                /\ turn' = [turn EXCEPT ![c] =
                              [t EXCEPT !.site = "error",
                                        !.response =
                                          ErrorResponse(session_id[c], chat_message.exc)]]
                /\ pc' = [pc EXCEPT ![c] = "send"]
                /\ UNCHANGED conversation_history
           ELSE IF IsClearCommand(chat_message)
           THEN /\ conversation_history' = <<>>
                /\ turn' = [turn EXCEPT ![c] =
                              [t EXCEPT !.site = "try",
                                        !.response = ClearResponse(chat_message)]]
                /\ pc' = [pc EXCEPT ![c] = "send"]
           ELSE \* process_chat_message(chat_message.message)
                /\ turn' = [turn EXCEPT ![c] =
                              [t EXCEPT !.site = "try", !.agentRan = TRUE,
                                        !.prompt = chat_message.message]]
                /\ pc' = [pc EXCEPT ![c] = "model"]
                /\ UNCHANGED conversation_history
  /\ UNCHANGED <<active_connections, session_id, peer, wire, nframes>>
  /\ UNCHANGED others

\* await websocket.receive_text() raises WebSocketDisconnect: the outer
\* except clause deregisters the connection and the handler ends
ReceiveDisconnect(c) ==
  /\ pc[c] = "recv"
  /\ LoopFree(c)
  /\ inbox[c] = <<>>
  /\ peer[c] = "gone"
  /\ LET removed == ManagerDisconnect(active_connections, c)
     IN /\ active_connections' = removed.list
        /\ pc' = [pc EXCEPT ![c] =
                    IF removed.raised = Nothing THEN "closed" ELSE "crashed"]
  /\ turn' = [turn EXCEPT ![c] = Ended(@)]
  /\ UNCHANGED <<conversation_history, session_id, inbox, peer,
                 wire, nframes>>
  /\ UNCHANGED others

\* a function call of the reply names none of the three handlers
HasUnknownCall(reply) ==
  \E i \in 1..Len(reply.candidates) :
    \E j \in 1..Len(reply.candidates[i]) :
      /\ reply.candidates[i][j].kind = "function_call"
      /\ reply.candidates[i][j].name \notin ToolNames

\* model.generate_content(message) returns or raises, and run_quotation_agent
\* goes on to its return or to the handler it calls
ModelReturn(c, reply) ==
  /\ pc[c] = "model"
  /\ LET out == RunAgent(reply)
         t == [turn[c] EXCEPT !.modelRaised = reply.raised,
                              !.unknownCall = HasUnknownCall(reply),
                              !.reply = Some(reply)]
     IN IF out.kind = "call"
        THEN /\ turn' = [turn EXCEPT ![c] =
                           [t EXCEPT !.tool = out.tool,
                                     !.handlers = Append(@, out.tool)]]
             /\ pc' = [pc EXCEPT ![c] = "tool"]
        ELSE /\ turn' = [turn EXCEPT ![c] =
                           [t EXCEPT !.response = Respond(c, out.text)]]
             /\ pc' = [pc EXCEPT ![c] = "send"]
  /\ conversation_history' = HistoryAfter(conversation_history, turn[c].prompt)
  /\ UNCHANGED <<active_connections, session_id, inbox, peer, wire, nframes>>
  /\ UNCHANGED others

\* the handler's calls to the payments provider return or raise; the handler
\* returns its string and run_quotation_agent returns it with its icon
ToolReturn(c, outcome) ==
  /\ pc[c] = "tool"
  /\ turn' = [turn EXCEPT ![c].response =
                Respond(c, DecoratedResult(turn[c].tool, outcome))]
  /\ pc' = [pc EXCEPT ![c] = "send"]
  /\ UNCHANGED <<active_connections, conversation_history, session_id, inbox, peer, wire, nframes>>
  /\ UNCHANGED others

\* what websocket.send_text raises once the client is gone
SendErrors ==
  { Exc("WebSocketDisconnect", "1006"),
    Exc("RuntimeError", "Cannot call send once a close message has been sent.") }

\* await manager.send_message(response.model_dump_json(), websocket) returns
SendOk(c) ==
  /\ pc[c] = "send"
  /\ LoopFree(c)
  /\ peer[c] = "open"
  /\ wire' = SendMessage(wire, [origin |-> c, frameNo |-> turn[c].frameNo], c)
  /\ turn' = [turn EXCEPT ![c].delivered = TRUE]
  /\ pc' = [pc EXCEPT ![c] = "recv"]
  /\ UNCHANGED <<active_connections, conversation_history, session_id, inbox, peer, nframes>>
  /\ UNCHANGED others

\* the send in the try body raises e: WebSocketDisconnect is an Exception,
\* so either error is caught by except Exception, which sends an error response
SendFailInTry(c, e) ==
  /\ pc[c] = "send"
  /\ LoopFree(c)
  /\ peer[c] = "gone"
  /\ turn[c].site = "try"
  /\ turn' = [turn EXCEPT ![c].site = "error",
                          ![c].response = ErrorResponse(session_id[c], e)]
  /\ UNCHANGED <<active_connections, conversation_history, session_id, pc, inbox, peer, wire, nframes>>
  /\ UNCHANGED others

\* the send in an except clause raises e: only the outer
\* except WebSocketDisconnect is left to catch it; the handler ends either
\* way, and the frames still waiting are never received
SendFailInHandler(c, e) ==
  /\ pc[c] = "send"
  /\ LoopFree(c)
  /\ peer[c] = "gone"
  /\ turn[c].site \in {"fallback", "error"}
  /\ IF e.cls = "WebSocketDisconnect"
     THEN LET removed == ManagerDisconnect(active_connections, c)
          IN /\ active_connections' = removed.list
             /\ pc' = [pc EXCEPT ![c] =
                         IF removed.raised = Nothing THEN "closed" ELSE "crashed"]
     ELSE /\ pc' = [pc EXCEPT ![c] = "crashed"]
          /\ UNCHANGED active_connections
  /\ turn' = [turn EXCEPT ![c] = Ended(@)]
  /\ inbox' = [inbox EXCEPT ![c] = <<>>]
  /\ UNCHANGED <<conversation_history, session_id, peer, wire,
                 nframes>>
  /\ UNCHANGED others

PaymentOutcomes == {Nothing} \cup {Some(e) : e \in PaymentErrors}

\* the steps of the connections cs, with the clients' frames drawn from
\* frames, at most room of them waiting on a connection, and the model's
\* replies drawn from replies
Step(cs, frames, room, replies) ==
  \/ \E c \in cs : Connect(c)
  \/ \E c \in cs, f \in frames : ClientSend(c, f, room)
  \/ \E c \in cs : ClientClose(c)
  \/ \E c \in cs : Receive(c)
  \/ \E c \in cs : ReceiveDisconnect(c)
  \/ \E c \in cs, reply \in replies : ModelReturn(c, reply)
  \/ \E c \in cs, outcome \in PaymentOutcomes : ToolReturn(c, outcome)
  \/ \E c \in cs : SendOk(c)
  \/ \E c \in cs, e \in SendErrors : SendFailInTry(c, e)
  \/ \E c \in cs, e \in SendErrors : SendFailInHandler(c, e)

\* several connections, the clients sending frames of every class without
\* waiting for the answers, and the model giving replies of every class
Next == Step(Conns, CoreFrames, MaxInbox, CoreReplies)

Spec == Init /\ [][Next]_vars

\* one connection, whose client sends any frame of Frames once the one
\* before it has been received, and the model gives any reply of Replies
NextOne == Step({1}, Frames, 1, Replies)

SpecOne == Init /\ [][NextOne]_vars

\* ----------------------------------------------- the manager's methods alone
\* number of calls a caller makes on the manager
MaxCalls == 4

\* the state of the chat endpoint apart from the manager's list
chat == <<conversation_history, session_id, pc, turn, inbox, peer, wire, nframes>>

\* websocket.accept() has been called for w: a second accept() raises
Accepted(w) ==
  \E i \in 1..Len(manager_calls) :
    manager_calls[i].op = "connect" /\ manager_calls[i].websocket = w

\* one call on the manager, as the caller sees it: the list before and after
\* it, and the exception it raised if any
ManagerCall(op, websocket, before, after, raised) ==
  [op |-> op, websocket |-> websocket, before |-> before, after |-> after,
   raised |-> raised]

\* await manager.connect(websocket), for a websocket not accepted before
CallConnect(w) ==
  /\ Len(manager_calls) < MaxCalls
  /\ ~Accepted(w)
  /\ LET after == ManagerConnect(active_connections, w)
     IN /\ active_connections' = after
        /\ manager_calls' =
             Append(manager_calls,
                    ManagerCall("connect", w, active_connections, after, Nothing))
  /\ UNCHANGED <<chat, stripe, handler, API_KEY, http>>

\* manager.disconnect(websocket), for any websocket
CallDisconnect(w) ==
  /\ Len(manager_calls) < MaxCalls
  /\ LET removed == ManagerDisconnect(active_connections, w)
     IN /\ active_connections' = removed.list
        /\ manager_calls' =
             Append(manager_calls,
                    ManagerCall("disconnect", w, active_connections,
                                removed.list, removed.raised))
  /\ UNCHANGED <<chat, stripe, handler, API_KEY, http>>

NextManager ==
  \/ \E w \in Conns : CallConnect(w)
  \/ \E w \in Conns : CallDisconnect(w)

\* a caller that connects and disconnects websockets in any order
SpecManager == Init /\ [][NextManager]_vars

\* ------------------------------------- the agent loop calling the handlers
\* the state the handlers and the provider leave alone
untooled == <<active_connections, chat, manager_calls, API_KEY, http>>

EmailBob == <<"b", "o", "b", "@", "x", ".", "i", "o">>
NameBob == <<"B", "o", "b">>

\* the argument mappings the model may give for create_customer
CustomerArgs ==
  { ("email" :> JStr(EmailBob)),
    ("email" :> JStr(EmailBob)) @@ ("name" :> JStr(NameBob)),
    ("name" :> JStr(NameBob)),
    ("email" :> Number(70)) }

\* amounts: 1000.0, 199.9, -1.5, "12.5", " 250 ", "abc" and None
Amounts ==
  { Number(10000), Number(1999), Number(-15),
    JStr(<<"1", "2", ".", "5">>), JStr(<<" ", "2", "5", "0", " ">>),
    JStr(<<"a", "b", "c">>), JNull }

\* the argument mappings the model may give for create_invoice
InvoiceArgs ==
  { ("customer_id" :> JStr(id)) @@ ("amount" :> a) :
      id \in {ExistingCustomer, UnknownCustomer}, a \in Amounts }
    \cup { ("customer_id" :> JStr(UnknownCustomer)) @@ ("amount" :> Number(10000))
             @@ ("currency" :> cur) :
           cur \in {JStr(<<"U", "S", "D">>), Number(10)} }
    \cup { ("customer_id" :> JStr(ExistingCustomer)),
           ("customer_id" :> JStr(ExistingCustomer)) @@ ("amount" :> Number(10000))
             @@ ("due" :> Number(300)) }

\* the argument mappings the model may give for list_invoices
ListArgs ==
  { [k \in {} |-> JNull],
    ("customer_id" :> JStr(ExistingCustomer)),
    ("customer_id" :> JStr(<<>>)),
    ("limit" :> Number(30)) }

Dispatches ==
  {[tool |-> "create_customer", args |-> a] : a \in CustomerArgs}
    \cup {[tool |-> "create_invoice", args |-> a] : a \in InvoiceArgs}
    \cup {[tool |-> "list_invoices", args |-> a] : a \in ListArgs}

\* the number of objects a list call of the provider returns at most
PageLimit == 10

\* result = handler(**args) in run_quotation_agent
Dispatch(d) ==
  /\ handler.at \in {"idle", "done"}
  /\ handler.no < MaxDispatches
  /\ handler' = Enter(d.tool, d.args, handler.no + 1)
  /\ UNCHANGED <<stripe, untooled>>

\* stripe.Customer.retrieve(customer_id) in create_invoice
CustomerRetrieve(outcome) ==
  /\ handler.at = "retrieve"
  /\ LET answer == Answer(outcome, handler.customer_id \in DOMAIN stripe.customers,
                          "No such customer")
         h == Called(handler, "Customer.retrieve", answer = Nothing)
     IN handler' = IF answer = Nothing THEN Proceed(h, After("retrieve"))
                   ELSE IF CaughtAsMissing(answer[1]) THEN [h EXCEPT !.at = "demo"]
                   ELSE Fail(h, answer[1])
  /\ UNCHANGED <<stripe, untooled>>

\* stripe.Customer.create(email=demo_email, ...) in create_invoice
DemoCustomerCreate(outcome) ==
  /\ handler.at = "demo"
  /\ LET answer == Answer(outcome, TRUE, "")
         h == Called(handler, "Customer.create", answer = Nothing)
         id == NewCustomerId(Cardinality(DOMAIN stripe.customers))
     IN IF answer = Nothing
        THEN /\ stripe' = [stripe EXCEPT !.customers =
                             @ @@ (id :> [email |-> DemoEmail(handler.customer_id),
                                          name |-> <<"Demo Customer ", handler.customer_id>>,
                                          demo |-> TRUE])]
             /\ handler' = Proceed([h EXCEPT !.customer_id = id], After("demo"))
        ELSE /\ handler' = Fail(h, answer[1])
             /\ UNCHANGED stripe
  /\ UNCHANGED untooled

\* stripe.Invoice.create(customer=customer_id, ...)
InvoiceCreate(outcome) ==
  /\ handler.at = "invoice"
  /\ LET answer == Answer(outcome, handler.customer_id \in DOMAIN stripe.customers,
                          "No such customer")
         h == Called(handler, "Invoice.create", answer = Nothing)
         id == NewInvoiceId(Cardinality(DOMAIN stripe.invoices) + 1)
     IN IF answer = Nothing
        THEN /\ stripe' = [stripe EXCEPT !.invoices =
                             @ @@ (id :> [customer |-> handler.customer_id,
                                          status |-> "draft", lines |-> <<>>,
                                          total |-> 0])]
             /\ handler' = Proceed([h EXCEPT !.invoice = id], After("invoice"))
        ELSE /\ handler' = Fail(h, answer[1])
             /\ UNCHANGED stripe
  /\ UNCHANGED untooled

\* stripe.InvoiceItem.create(customer=customer_id, invoice=invoice.id,
\* amount=amount, ...)
InvoiceItemCreate(outcome) ==
  /\ handler.at = "item"
  /\ LET answer == Answer(outcome,
                          /\ handler.invoice \in DOMAIN stripe.invoices
                          /\ stripe.invoices[handler.invoice].status = "draft",
                          "The invoice is no longer editable")
         h == Called(handler, "InvoiceItem.create", answer = Nothing)
     IN IF answer = Nothing
        THEN /\ stripe' = [stripe EXCEPT !.invoices[handler.invoice].lines =
                             Append(@, [amount |-> handler.amount,
                                        customer |-> handler.customer_id])]
             /\ handler' = Proceed(h, After("item"))
        ELSE /\ handler' = Fail(h, answer[1])
             /\ UNCHANGED stripe
  /\ UNCHANGED untooled

\* stripe.Invoice.finalize_invoice(invoice.id): the draft becomes payable
\* and its total is the sum of its lines
InvoiceFinalize(outcome) ==
  /\ handler.at = "finalize"
  /\ LET answer == Answer(outcome,
                          /\ handler.invoice \in DOMAIN stripe.invoices
                          /\ stripe.invoices[handler.invoice].status = "draft",
                          "This invoice is already finalized")
         h == Called(handler, "Invoice.finalize_invoice", answer = Nothing)
         total == SumAmounts(stripe.invoices[handler.invoice].lines)
     IN IF answer = Nothing
        THEN /\ stripe' = [stripe EXCEPT !.invoices[handler.invoice].status = "open",
                                         !.invoices[handler.invoice].total = total]
             /\ handler' = Proceed([h EXCEPT !.total = total], After("finalize"))
        ELSE /\ handler' = Fail(h, answer[1])
             /\ UNCHANGED stripe
  /\ UNCHANGED untooled

\* stripe.Customer.create(email=email, name=..., description=...) in
\* create_customer
CustomerCreate(outcome) ==
  /\ handler.at = "customer"
  /\ LET email == handler.args["email"]
         name == Arg(handler.args, "name", JStr(<<>>))
         answer == Answer(outcome, email.t = "str", "Invalid email address")
         h == Called(handler, "Customer.create", answer = Nothing)
         id == NewCustomerId(Cardinality(DOMAIN stripe.customers))
     IN IF answer = Nothing
        THEN /\ stripe' = [stripe EXCEPT !.customers =
                             @ @@ (id :> [email |-> email.v,
                                          name |-> IF Truthy(name) THEN name.v
                                                   ELSE LocalPart(email.v),
                                          demo |-> FALSE])]
             /\ handler' = Return(h, CustomerCreated(id, email.v))
        ELSE /\ handler' = Fail(h, answer[1])
             /\ UNCHANGED stripe
  /\ UNCHANGED untooled

\* stripe.Invoice.list(...) in list_invoices, and len(invoices.data)
InvoiceList(outcome) ==
  /\ handler.at = "list"
  /\ LET customer_id == Arg(handler.args, "customer_id", JNull)
         found == {i \in DOMAIN stripe.invoices :
                     Truthy(customer_id) => stripe.invoices[i].customer = customer_id.v}
         n == IF Cardinality(found) > PageLimit THEN PageLimit ELSE Cardinality(found)
         h == Called(handler, "Invoice.list", outcome = Nothing)
     IN handler' = IF outcome = Nothing THEN Return(h, InvoicesFound(n))
                   ELSE Fail(h, outcome[1])
  /\ UNCHANGED <<stripe, untooled>>

NextTools ==
  \/ \E d \in Dispatches : Dispatch(d)
  \/ \E outcome \in PaymentOutcomes : CustomerRetrieve(outcome)
  \/ \E outcome \in PaymentOutcomes : DemoCustomerCreate(outcome)
  \/ \E outcome \in PaymentOutcomes : InvoiceCreate(outcome)
  \/ \E outcome \in PaymentOutcomes : InvoiceItemCreate(outcome)
  \/ \E outcome \in PaymentOutcomes : InvoiceFinalize(outcome)
  \/ \E outcome \in PaymentOutcomes : CustomerCreate(outcome)
  \/ \E outcome \in PaymentOutcomes : InvoiceList(outcome)

\* the agent loop calling handlers with any arguments, one call after the
\* other, each call to the provider succeeding or failing
SpecTools == Init /\ [][NextTools]_vars

\* ------------------------------------------------ the HTTP endpoints, keyed
HTTP_403_FORBIDDEN == 403

\* what os.getenv("API_KEY") may give: None, or the operator's secret
ApiKeys == {Nothing, Some(Secret)}

\* the x-api-key header of a request: none, empty, the secret, another text
Headers == {Nothing, Some(<<>>), Some(Secret), Some(WrongKey)}

\* api_key_header(request) with auto_error=False: None when the header is
\* missing or empty
ApiKeyHeader(header) ==
  IF header = Nothing \/ header = Some(<<>>) THEN Nothing ELSE header

\* verify_api_key: the status of the HTTPException it raises, Nothing if it
\* returns
VerifyApiKey(api_key) ==
  IF api_key # API_KEY THEN Some(HTTP_403_FORBIDDEN) ELSE Nothing

\* a request and the response to it
Exchange(endpoint, header, denied, cleared) ==
  [endpoint |-> endpoint, api_key |-> header,
   status |-> IF denied = Nothing THEN 200 ELSE denied[1], cleared |-> cleared]

\* the state an HTTP request leaves alone
unserved == <<active_connections, session_id, pc, turn, inbox, peer, wire,
              nframes, manager_calls, stripe, handler, API_KEY>>

\* GET /
ReadRoot(header) ==
  /\ http' = Exchange("/", header, VerifyApiKey(ApiKeyHeader(header)), FALSE)
  /\ UNCHANGED <<conversation_history, unserved>>

\* POST /clear-chat
ClearChat(header) ==
  /\ LET denied == VerifyApiKey(ApiKeyHeader(header))
     IN /\ http' = Exchange("/clear-chat", header, denied, denied = Nothing)
        /\ conversation_history' =
             IF denied = Nothing THEN <<>> ELSE conversation_history
  /\ UNCHANGED unserved

\* the process started with any configuration of the key
InitHttp == InitChat /\ \E key \in ApiKeys : InitOthers(key)

\* a chat connection with a frame of each class, and HTTP requests with any
\* header at any time
NextHttp ==
  \/ Step({1}, CoreFrames, 1, CoreReplies)
  \/ \E header \in Headers : ReadRoot(header)
  \/ \E header \in Headers : ClearChat(header)

SpecHttp == InitHttp /\ [][NextHttp]_vars

\* the frames of CoreFrames that reach the agent loop or the clear command
HistoryFrames == CoreFrames \ {JsonFrame(JList)}

\* the replies of CoreReplies that model.generate_content returns
HistoryReplies == {reply \in CoreReplies : ~reply.raised}

\* several chat connections, each client waiting for its answer, and
\* keyed requests to POST /clear-chat at any time
NextHistory ==
  \/ Step(Conns, HistoryFrames, 1, HistoryReplies)
  \/ ClearChat(Some(Secret))

SpecHistory == Init /\ [][NextHistory]_vars

\* a frame of each path that builds a response, each carrying the same
\* client-chosen session id where it carries one: plain text, a chat message,
\* a clear command, and a JSON object that fails the ChatMessage schema
SessionFrames ==
  { TextFrame(TextHi),
    ChatFrame(ClientId(1), TextHi),
    TypedFrame(ClientId(1), TextHi, "clear"),
    JsonFrame(Obj2("session_id", JStr(ClientId(1)), "message", JNum)) }

\* several chat connections whose clients all use one session id in their
\* frames, each client waiting for its answer
NextSession == Step(Conns, SessionFrames, 1, HistoryReplies)

SpecSession == Init /\ [][NextSession]_vars

\* ------------------------------------------------------------------ claims
\* the frame of connection c's current turn has been answered on the wire
Answered(c) == turn[c].delivered

\* C1: a turn whose reply holds a function call with a name that is none of
\* the three handlers invokes no handler, and its response is error-flagged:
\* success is false and error is populated.
C1_UnknownCallIsErrorFlagged ==
  \A c \in Conns :
    turn[c].unknownCall /\ Answered(c) =>
      /\ turn[c].handlers = <<>>
      /\ ~turn[c].response.success
      /\ turn[c].response.error # Nothing

\* the text str(e) of a model error is one of the fragments of the message
EmbedsModelError(message) ==
  \E e \in ModelErrors : \E i \in 1..Len(message) : message[i] = StrOf(e)

\* C2: a turn in which model.generate_content raises invokes no handler, and
\* its response has success false, the generic message without the
\* exception's text, and the exception's text in error.
C2_ModelErrorIsFlagged ==
  \A c \in Conns :
    turn[c].modelRaised /\ Answered(c) =>
      /\ turn[c].handlers = <<>>
      /\ ~turn[c].response.success
      /\ ~EmbedsModelError(turn[c].response.message)
      /\ turn[c].response.error # Nothing

\* the frame is a JSON object that satisfies the ChatMessage schema
ValidChatFrame(f) ==
  /\ f.isJson
  /\ f.value.t = "object"
  /\ \A k \in {"session_id", "message"} :
       k \in DOMAIN f.value.v /\ f.value.v[k].t = "str"
  /\ \A k \in {"user_id", "message_type"} :
       k \in DOMAIN f.value.v => f.value.v[k].t = "str"

\* the frame is a JSON object whose message_type is "clear" or whose message
\* is "/clear" once trimmed and lower-cased
SaysClear(f) ==
  /\ f.isJson
  /\ f.value.t = "object"
  /\ \/ /\ "message_type" \in DOMAIN f.value.v
        /\ f.value.v["message_type"] = JStr("clear")
     \/ /\ "message" \in DOMAIN f.value.v
        /\ f.value.v["message"].t = "str"
        /\ Strip(Lower(f.value.v["message"].v)) = SlashClear

\* what C3 promises of the turn of connection c
ClearedTurn(c) ==
  /\ ~turn[c].agentRan
  /\ turn[c].handlers = <<>>
  /\ pc[c] \notin {"model", "tool"}
  /\ conversation_history = <<>>
  /\ Answered(c) => turn[c].response.message = ClearedMessage

\* C3 as stated: every frame that says clear, whatever its other fields,
\* leaves the history empty, is answered with the fixed confirmation and
\* does not run the agent loop.
C3_EveryClearFrame ==
  \A c \in Conns :
    turn[c].frameNo > 0 /\ SaysClear(turn[c].frame) => ClearedTurn(c)

\* C3 as amended: every frame that is a valid ChatMessage and says clear
\* leaves the history empty, is answered with the fixed confirmation and
\* does not run the agent loop.
C3_ValidClearFrame ==
  \A c \in Conns :
    /\ turn[c].frameNo > 0
    /\ ValidChatFrame(turn[c].frame)
    /\ SaysClear(turn[c].frame)
    => ClearedTurn(c)

\* a clear command given by padded, mixed-case text, after an earlier
\* frame on the connection, has been answered
C3_Witness ==
  \E c \in Conns :
    /\ Answered(c)
    /\ turn[c].frameNo >= 2
    /\ wire[c][1].frameNo = 1
    /\ turn[c].frame = ChatFrame(ClientId(1), TextPaddedClear)
    /\ turn[c].response.message = ClearedMessage

\* the responses on connection c's wire that answer its current frame
AnswersOnWire(c) ==
  {i \in 1..Len(wire[c]) :
     wire[c][i] = [origin |-> c, frameNo |-> turn[c].frameNo]}

\* C4: a frame that is not JSON runs the agent loop on the payload; no
\* exception escapes the handler; and when the handler is back at
\* receive_text, one response has been sent for it on its connection, with
\* message_type "response" and the session id the server generated.
C4_NonJsonFrameAnswered ==
  \A c \in Conns :
    turn[c].frameNo > 0 /\ ~turn[c].frame.isJson =>
      /\ pc[c] # "crashed"
      /\ pc[c] \notin {"closed", "crashed"} =>
           turn[c].agentRan /\ turn[c].prompt = turn[c].frame.raw
      /\ pc[c] = "recv" =>
           /\ Cardinality(AnswersOnWire(c)) = 1
           /\ turn[c].response.message_type = "response"
           /\ turn[c].response.session_id = session_id[c]

\* C5: a frame that is JSON but no ChatMessage does not run the agent loop;
\* no exception escapes the handler; and when the handler is back at
\* receive_text, one response has been sent for it, with success false, the
\* exception's text in error and the generic message.
C5_SchemaErrorAnswered ==
  \A c \in Conns :
    /\ turn[c].frameNo > 0
    /\ turn[c].frame.isJson
    /\ ~ValidChatFrame(turn[c].frame)
    => /\ ~turn[c].agentRan
       /\ pc[c] # "crashed"
       /\ pc[c] = "recv" =>
            /\ Cardinality(AnswersOnWire(c)) = 1
            /\ ~turn[c].response.success
            /\ turn[c].response.error # Nothing
            /\ turn[c].response.message = GenericErrorMessage

\* C6: every response that has been sent has sender "agent" and
\* message_type "response", and if its success is false then its error is
\* populated and its message is the generic one.
C6_ResponseShape ==
  \A c \in Conns :
    Answered(c) =>
      /\ turn[c].response.sender = "agent"
      /\ turn[c].response.message_type = "response"
      /\ ~turn[c].response.success =>
           /\ turn[c].response.error # Nothing
           /\ turn[c].response.message = GenericErrorMessage

\* a response with success false has been sent
C6_Witness ==
  \E c \in Conns : Answered(c) /\ ~turn[c].response.success

\* C7: every response on a connection's wire answers a frame that was
\* received on that connection.
C7_NoCrossTalk ==
  \A c \in Conns :
    \A i \in 1..Len(wire[c]) : wire[c][i].origin = c

\* two connections have each been sent a response
C7_Witness ==
  \E c, d \in Conns :
    /\ c # d
    /\ wire[c] # <<>>
    /\ wire[d] # <<>>

\* C8: on each connection the k-th response answers the k-th frame that
\* arrived, a frame is answered at most once, and whenever the handler is
\* at receive_text every frame it has received has been answered.
C8_OneResponsePerFrameInOrder ==
  \A c \in Conns :
    /\ \A i \in 1..Len(wire[c]) : wire[c][i].frameNo = i
    /\ Len(wire[c]) <= turn[c].frameNo
    /\ turn[c].frameNo <= Len(wire[c]) + 1
    /\ pc[c] = "recv" => Len(wire[c]) = turn[c].frameNo

\* a connection has been sent two responses and its handler is back at
\* receive_text
C8_Witness ==
  \E c \in Conns :
    /\ Len(wire[c]) = 2
    /\ pc[c] = "recv"

\* C9: while one connection's turn is inside a remote call, another
\* connection with a frame waiting can have it received.
C9_OthersUnaffected ==
  \A c, d \in Conns :
    /\ c # d
    /\ pc[c] \in {"model", "tool"}
    /\ pc[d] = "recv"
    /\ inbox[d] # <<>>
    => ENABLED Receive(d)

\* C10: no exception leaves websocket_endpoint except through the disconnect
\* path.
C10_NoExceptionEscapes ==
  \A c \in Conns : pc[c] # "crashed"

\* C11: a call of disconnect raises no error; for a connection that is not
\* in active_connections it leaves the list as it was; and a second call in a
\* row for the same connection leaves the list as the first call left it.
C11_DisconnectIdempotent ==
  \A i \in 1..Len(manager_calls) :
    LET k == manager_calls[i]
    IN k.op = "disconnect" =>
         /\ k.raised = Nothing
         /\ ~BagIn(k.websocket, k.before) => k.after = k.before
         /\ ( /\ i > 1
              /\ manager_calls[i - 1].op = "disconnect"
              /\ manager_calls[i - 1].websocket = k.websocket )
            => k.after = k.before

\* the handler of connection c is running / has ended
HandlerLive(at) == at \in {"recv", "model", "tool", "send"}
HandlerEnded(at) == at \in {"closed", "crashed"}

\* C12: after every step, a connection is in active_connections at most
\* once, it is there while its handler runs, it is not there once its
\* handler has ended for whatever reason, and no response is written to a
\* connection whose handler has ended.
C12_RegistryTracksLive ==
  [][ \A c \in Conns :
        /\ CopiesIn(c, active_connections') <= 1
        /\ HandlerLive(pc'[c]) => BagIn(c, active_connections')
        /\ HandlerEnded(pc'[c]) => ~BagIn(c, active_connections')
        /\ HandlerEnded(pc[c]) => wire'[c] = wire[c] ]_vars

\* the handler that was called has returned to the agent loop, or raised
HandlerDone(tool) == handler.at = "done" /\ handler.tool = tool

\* the text is one that the handler returns when all went well
IsSuccessText(tool, text) ==
  CASE tool = "create_customer" -> Len(text) = 4 /\ text[1] = "Customer "
    [] tool = "create_invoice" -> Len(text) = 12 /\ text[1] = "Invoice "
    [] OTHER -> Len(text) = 3 /\ text[1] = "Found "

\* the handler returned a success text
Succeeded(tool) ==
  /\ HandlerDone(tool)
  /\ handler.returned # Nothing
  /\ IsSuccessText(tool, handler.returned[1])

\* C13: whatever the argument mapping and whichever call to the provider
\* fails, a handler that is over has raised nothing and has returned a text
\* that is a success text or begins with the handler's error prefix.
C13_HandlersNeverRaise ==
  \A tool \in ToolNames :
    HandlerDone(tool) =>
      /\ handler.raised = Nothing
      /\ handler.returned # Nothing
      /\ \/ IsSuccessText(tool, handler.returned[1])
         \/ handler.returned[1][1] = ErrorPrefix(tool)

\* the number of successful calls of op that the handler has made
Made(op) ==
  Cardinality({i \in 1..Len(handler.calls) :
                 handler.calls[i].op = op /\ handler.calls[i].ok})

\* C14: when create_invoice has returned a success text, either the input
\* customer id exists at the provider, no customer was created, and the id
\* reported and used for the invoice and its line is the input id; or the
\* id does not exist, one customer was created with the email
\* "<customer_id>@demo.com", and the id reported and used is that new
\* customer's, which differs from the input id.
C14_DemoCustomerOnlyWhenMissing ==
  Succeeded("create_invoice") =>
    LET input == handler.args["customer_id"].v
        reported == handler.returned[1][4]
        invoice == stripe.invoices[handler.returned[1][2]]
        used == /\ invoice.customer = reported
                /\ \A i \in 1..Len(invoice.lines) : invoice.lines[i].customer = reported
    IN IF input \in DOMAIN stripe.customers
       THEN /\ Made("Customer.create") = 0
            /\ reported = input
            /\ used
       ELSE /\ Made("Customer.create") = 1
            /\ reported # input
            /\ reported \in DOMAIN stripe.customers
            /\ stripe.customers[reported].email = <<input, "@demo.com">>
            /\ stripe.customers[reported].demo
            /\ used

\* an invoice was created for a customer id that does not exist: the result
\* reports the demo customer made for it
C14_Witness ==
  /\ Succeeded("create_invoice")
  /\ handler.args["customer_id"].v = UnknownCustomer
  /\ handler.returned[1][4] = NewCustomerId(1)
  /\ stripe.customers[NewCustomerId(1)].email = <<UnknownCustomer, "@demo.com">>

\* s is the beginning of t
IsPrefix(s, t) == Len(s) <= Len(t) /\ s = SubSeq(t, 1, Len(s))

\* the calls of create_invoice, in order, without and with the demo customer
StepsFound ==
  <<"Customer.retrieve", "Invoice.create", "InvoiceItem.create",
    "Invoice.finalize_invoice">>
StepsMissing ==
  <<"Customer.retrieve", "Customer.create", "Invoice.create",
    "InvoiceItem.create", "Invoice.finalize_invoice">>

\* C15: the calls create_invoice has made are the beginning of lookup,
\* (demo customer after a failed lookup,) invoice, line item, finalize; a
\* call that failed is the last one, the lookup before a demo customer
\* aside; a success text is returned if and only if the last call is a
\* finalize that succeeded, and any other return is an error text; a
\* finalized invoice holds one line, and once the line item call has
\* succeeded the invoice holds that one line, for the full amount; and what
\* earlier steps created is still at the provider after a failure.
C15_StepsInOrder ==
  handler.tool = "create_invoice" =>
    LET calls == handler.calls
        ops == [i \in 1..Len(calls) |-> calls[i].op]
        n == Len(calls)
        finalized == n > 0 /\ ops[n] = "Invoice.finalize_invoice" /\ calls[n].ok
    IN /\ IsPrefix(ops, StepsFound) \/ IsPrefix(ops, StepsMissing)
       /\ \A i \in 1..(n - 1) :
            calls[i].ok \/ (i = 1 /\ ops[2] = "Customer.create")
       /\ (n >= 2 /\ ops[2] = "Customer.create") => ~calls[1].ok
       /\ Succeeded("create_invoice") <=> (handler.at = "done" /\ finalized)
       /\ (handler.at = "done" /\ ~finalized) =>
            /\ handler.raised = Nothing =>
                 handler.returned[1][1] = ErrorPrefix("create_invoice")
            /\ handler.raised # Nothing => n = 0
       /\ \A id \in DOMAIN stripe.invoices :
            stripe.invoices[id].status = "open" => Len(stripe.invoices[id].lines) = 1
       /\ Made("InvoiceItem.create") = 1 =>
            /\ Len(stripe.invoices[handler.invoice].lines) = 1
            /\ stripe.invoices[handler.invoice].lines[1].amount = handler.amount
       /\ Made("Invoice.create") = 1 => handler.invoice \in DOMAIN stripe.invoices
       /\ Made("Customer.create") = 1 => handler.customer_id \in DOMAIN stripe.customers

\* finalize failed: the error text is returned, and the demo customer and
\* the draft invoice with its line are left at the provider
C15_Witness ==
  /\ HandlerDone("create_invoice")
  /\ Len(handler.calls) = 5
  /\ ~handler.calls[5].ok
  /\ handler.returned[1][1] = ErrorPrefix("create_invoice")
  /\ stripe.invoices[handler.invoice].status = "draft"
  /\ Len(stripe.invoices[handler.invoice].lines) = 1
  /\ stripe.customers[handler.customer_id].demo

\* the reply is free text and holds no function call: the texts of its first
\* candidate, Nothing for any other reply
FreeText(reply) ==
  IF /\ ~reply.raised
     /\ reply.candidates # <<>>
     /\ \A i \in 1..Len(reply.candidates) :
          \A j \in 1..Len(reply.candidates[i]) :
            reply.candidates[i][j].kind = "text"
     /\ reply.candidates[1] # <<>>
  THEN Some([j \in 1..Len(reply.candidates[1]) |-> reply.candidates[1][j].text])
  ELSE Nothing

FirstCandidate(c) ==
  IF turn[c].reply = Nothing \/ turn[c].reply[1].candidates = <<>>
  THEN <<>>
  ELSE turn[c].reply[1].candidates[1]

\* C17 as stated: a turn invokes at most one handler, and only for a
\* function call that is the first part of the first candidate.
C17_FirstPartOnly ==
  \A c \in Conns :
    /\ Len(turn[c].handlers) <= 1
    /\ turn[c].handlers # <<>> =>
         /\ FirstCandidate(c) # <<>>
         /\ FirstCandidate(c)[1].kind = "function_call"
         /\ FirstCandidate(c)[1].name = turn[c].handlers[1]

\* C17 as amended: a turn invokes at most one handler, and only for the
\* first part of the first candidate that is a function call naming a
\* handler, whichever part that is; a function call in a later candidate
\* is never dispatched.
C17_FirstCallOfFirstCandidate ==
  \A c \in Conns :
    /\ Len(turn[c].handlers) <= 1
    /\ turn[c].handlers # <<>> =>
         \E i \in 1..Len(FirstCandidate(c)) :
           /\ FirstCandidate(c)[i].kind = "function_call"
           /\ FirstCandidate(c)[i].name = turn[c].handlers[1]
           /\ FirstCandidate(c)[i].argsOk
           /\ \A j \in 1..(i - 1) :
                ~ ( /\ FirstCandidate(c)[j].kind = "function_call"
                    /\ FirstCandidate(c)[j].name \in ToolNames )

\* a reply whose first part is text and whose second part is a call of
\* list_invoices has had that handler invoked, and the turn is answered
C17_Witness ==
  \E c \in Conns :
    /\ Answered(c)
    /\ Len(FirstCandidate(c)) = 2
    /\ FirstCandidate(c)[1].kind = "text"
    /\ FirstCandidate(c)[2] = FunctionCall("list_invoices", TRUE)
    /\ turn[c].handlers = <<"list_invoices">>

\* C18: whatever the configuration of API_KEY, a request to GET / or to
\* POST /clear-chat whose x-api-key header is absent, or is not the
\* configured secret, is answered 403 and has not reset the history.
C18_KeyRequired ==
  ( /\ http.endpoint # ""
    /\ \/ http.api_key = Nothing
       \/ http.api_key # API_KEY )
  => /\ http.status = HTTP_403_FORBIDDEN
     /\ ~http.cleared

\* the text of a frame that the endpoint hands to the agent loop
MessageOf(frame) ==
  IF frame.isJson THEN frame.value.v["message"].v ELSE frame.raw

\* C20: conversation_history is empty in every state, whatever chat turns,
\* tool dispatches, fallback and error paths, clear commands and
\* POST /clear-chat requests have happened on any connection; and the text
\* given to the model in a turn is the text of that turn's frame alone.
C20_HistoryAlwaysEmpty ==
  /\ conversation_history = <<>>
  /\ \A c \in Conns :
       turn[c].agentRan => turn[c].prompt = MessageOf(turn[c].frame)

\* one connection has sent a clear command that was answered, POST
\* /clear-chat has been served, and another connection's chat turn has been
\* answered after its handler was called
C20_Witness ==
  \E c, d \in Conns :
    /\ c # d
    /\ Answered(c)
    /\ turn[c].response.message = ClearedMessage
    /\ http.cleared
    /\ Answered(d)
    /\ turn[d].handlers # <<>>

\* the frame is a JSON object with a session_id string of its own
SuppliesSessionId(f) ==
  /\ f.isJson
  /\ f.value.t = "object"
  /\ "session_id" \in DOMAIN f.value.v
  /\ f.value.v["session_id"].t = "str"

\* C21: after every step, a response built in the try body for a frame that
\* is a valid ChatMessage (chat or clear) carries the session_id of that
\* frame; a response built on the plain-text fallback path or on the error
\* path carries the id the server generated when the connection was
\* accepted, also when the frame had a session_id of its own; that id never
\* changes once it is set; and no two connections have the same one.
C21_SessionIdOfResponses ==
  [][ /\ \A c \in Conns :
          /\ pc'[c] \in {"send", "recv"} /\ turn'[c].site = "try" =>
               /\ ValidChatFrame(turn'[c].frame)
               /\ turn'[c].response.session_id =
                    turn'[c].frame.value.v["session_id"].v
          /\ pc'[c] \in {"send", "recv"}
               /\ turn'[c].site \in {"fallback", "error"} =>
               /\ session_id'[c] # NoSession
               /\ turn'[c].response.session_id = session_id'[c]
          /\ session_id[c] # NoSession => session_id'[c] = session_id[c]
      /\ \A c, d \in Conns :
          c # d /\ session_id'[c] # NoSession => session_id'[c] # session_id'[d]
    ]_vars

\* two connections whose clients used the same session id: one has its chat
\* frame answered with that id, the other has a frame that fails the schema
\* answered with the server's id of its connection
C21_Witness ==
  \E c, d \in Conns :
    /\ c # d
    /\ Answered(c) /\ turn[c].site = "try" /\ turn[c].agentRan
    /\ turn[c].response.session_id = ClientId(1)
    /\ Answered(d) /\ turn[d].site = "error"
    /\ SuppliesSessionId(turn[d].frame)
    /\ turn[d].frame.value.v["session_id"].v = ClientId(1)
    /\ turn[d].response.session_id = Uuid4(d)

\* n is the number given in tenths with its fraction cut off
CutsFraction(tenths, n) ==
  IF tenths >= 0
  THEN 10 * n <= tenths /\ tenths < 10 * n + 10
  ELSE 10 * n - 10 < tenths /\ tenths <= 10 * n

\* shown is minor, a number of minor units, written in major units with two
\* decimals
ShowsMajorUnits(shown, minor) ==
  /\ shown.cents \in 0..99
  /\ shown.whole >= 0
  /\ minor = (IF shown.negative THEN -1 ELSE 1) * (100 * shown.whole + shown.cents)
  /\ shown.negative <=> minor < 0

\* C19: when create_invoice has returned a success text, the invoice it
\* names holds one line, whose amount is the input amount with its fraction
\* cut off; the invoice's total is the sum of its lines' amounts; and the
\* total and the amount in the text are these, in major units.
C19_TotalIsLineAmount ==
  Succeeded("create_invoice") =>
    LET text == handler.returned[1]
        invoice == stripe.invoices[text[2]]
        given == FloatOf(handler.args["amount"])
    IN /\ given.ok
       /\ Len(invoice.lines) = 1
       /\ CutsFraction(given.tenths, invoice.lines[1].amount)
       /\ invoice.total = SumAmounts(invoice.lines)
       /\ ShowsMajorUnits(text[10], invoice.total)
       /\ ShowsMajorUnits(text[6], invoice.lines[1].amount)

\* an invoice for the amount 199.9 has been created: its line and its total
\* are 199 minor units, shown as 1.99
C19_Witness ==
  /\ Succeeded("create_invoice")
  /\ handler.args["amount"] = Number(1999)
  /\ stripe.invoices[handler.invoice].total = 199
  /\ handler.returned[1][10] = [negative |-> FALSE, whole |-> 1, cents |-> 99]

=============================================================================
